---- MODULE Spec2Model ----
(***************************************************************************)
(* DCGAN on SVHN (DCGAN_Exercises notebook): the preprocessing function    *)
(* scale, the Dataset wrapper (constructor and batches generator), the     *)
(* loss and optimizer graph (model_loss, model_opt) and the train loop.    *)
(*                                                                         *)
(* Tensors are scaled down: an image is a sequence of NPix cells, a cell   *)
(* is [id, px] where px is the pixel value and id tags the sample the cell *)
(* came from (the id is carried only to state pairing properties).  A      *)
(* float is an exact fraction [n, d]; d = 0 is what IEEE division by zero  *)
(* gives: n = 0 is NaN, n # 0 is an infinity.  A random draw is a fresh    *)
(* symbolic value, identified by the index of the np.random call.  Network *)
(* variables are version counters: an op that assigns a variable           *)
(* increments its version.                                                 *)
(***************************************************************************)
EXTENDS Integers, Sequences, FiniteSets, TLC

\* ---------------------------------------------------------------- bounds
MaxN      == 3   \* training samples of a Dataset
MaxTest   == 3   \* samples of the held-out test collection
MaxDen    == 3   \* val_frac ranges over k/d, 0 <= k <= d <= MaxDen
MaxEpochs == 2
MaxBatch  == 2
MaxEvery  == 2   \* print_every, show_every
MaxLen    == 3   \* rows of a batch handed to scale on its own
NPix      == 1   \* cells per image (stands for 32*32*3)

\* ------------------------------------------------------ program constants
SampleRows == 72   \* rows of sample_z
PixMax     == 255
NotebookBatchSize == 64    \* batch_size = 64
NotebookEpochs    == 1     \* epochs = 1
DefaultPrintEvery == 10    \* print_every=10
DefaultShowEvery  == 100   \* show_every=100

\* --------------------------------------------------------------- helpers
SetMin(S) == CHOOSE m \in S : \A k \in S : m <= k

IMin(a, b) == IF a <= b THEN a ELSE b

CeilDiv(a, b) == (a + b - 1) \div b

Range(f) == {f[i] : i \in DOMAIN f}

Perms(n) == { p \in [1..n -> 0..(n - 1)] : \A i, j \in 1..n : p[i] = p[j] => i = j }

\* numpy slice a[lo:hi] of a sequence (0-based, hi exclusive, clipped)
Slice(a, lo, hi) == SubSeq(a, lo + 1, IMin(hi, Len(a)))

\* numpy fancy indexing a[idx] with a 0-based index array
take(a, idx) == [k \in 1..Len(idx) |-> a[idx[k] + 1]]

\* some index of idx is out of range for a: numpy raises IndexError
IndexError(a, idx) == \E k \in 1..Len(idx) : idx[k] >= Len(a)

\* ------------------------------------------------------------ input data
\* pixel value of training/test sample i at position p (sample 2 is all white)
Pixel(i, p) == IF i % 3 = 2 THEN PixMax ELSE (40 * i + p) % 256

\* the label the raw data pairs with sample i
Label(i) == 100 + i

Image(i) == [p \in 1..NPix |-> [id |-> i, px |-> Pixel(i, p)]]

\* loadmat layout: X has the sample index as its LAST axis, X[p][i]
RawSet(n) ==
    [X |-> [p \in 1..NPix |-> [i \in 1..n |-> Image(i)[p]]],
     y |-> [i \in 1..n |-> Label(i)]]

ImgId(img) == img[1].id

\* ----------------------------------------------------------------- scale
\* x.min() over every cell of the batch
x_min(x) == SetMin(UNION {{x[i][p].px : p \in DOMAIN x[i]} : i \in DOMAIN x})

\* float division a / b
FDiv(a, b) == [n |-> a, d |-> b]

\* x = ((x - x.min())/(255 - x.min()))
scale01(x) ==
    [i \in DOMAIN x |-> [p \in DOMAIN x[i] |->
        [id |-> x[i][p].id, px |-> x[i][p].px,
         v |-> FDiv(x[i][p].px - x_min(x), PixMax - x_min(x))]]]

\* x = x * (max - min) + min, on fractions (NaN and infinities stay)
scale(x, fmin, fmax) ==
    LET u == scale01(x)
    IN  [i \in DOMAIN u |-> [p \in DOMAIN u[i] |->
            [id |-> u[i][p].id, px |-> u[i][p].px,
             v |-> [n |-> u[i][p].v.n * (fmax - fmin) + fmin * u[i][p].v.d,
                    d |-> u[i][p].v.d]]]]

\* the default scaler of Dataset: scale with feature_range=(-1, 1)
scaler(x) == scale(x, -1, 1)

\* ------------------------------------------------------------ state
VARIABLES
    pc,            \* position of the running cell / function
    trainset, testset,                 \* raw arrays (loadmat)
    val_frac,                          \* argument of Dataset.__init__
    train_x, train_y, test_x, test_y, valid_x, valid_y, shuffle,  \* Dataset fields
    dataset_len,   \* len(dataset.train_x) of the module-level name `dataset`
                   \* when it is another instance; -1 when it is this instance
    epochs, batch_size, print_every, show_every,                 \* train arguments
    e, ii, x, y, steps, sample_z, batch_z, samples, losses,      \* train locals
    params,        \* version of every tf variable of the session
    ckpt, pkl, ret,                    \* checkpoint file, samples.pkl, return value
    draws,         \* number of np.random.uniform calls so far
    at_call,       \* the training labels when the current batches() call began
    yielded,       \* the batches the current batches() call has yielded
    n_yields,      \* batches yielded so far, over all batches() calls
    d_runs, g_runs, last_d, last_g,    \* history of sess.run(net.d_opt / net.g_opt)
    sc_x, sc_out,                      \* argument and result of a lone scale call
    loss_in, loss_out,                 \* inputs and result of a lone loss evaluation
    diverged,      \* some tf variable of the session holds a non-finite value
    nan_step,      \* the first step whose real batch held a NaN; 0 when none did
    data_dir,      \* isdir('data/')
    train_file, test_file,             \* data/train_32x32.mat, data/test_32x32.mat
    fs0,           \* the directory and the two files as the run found them
    error,         \* the exception that ended the run of the cells
    net_built      \* net = GAN(...) has run

dataVars  == <<trainset, testset, val_frac, train_x, train_y, test_x, test_y,
               valid_x, valid_y, shuffle, dataset_len>>
argVars   == <<epochs, batch_size, print_every, show_every>>
loopVars  == <<e, ii, x, y, steps, sample_z, batch_z, samples, losses>>
outVars   == <<ckpt, pkl, ret>>
histVars  == <<draws, at_call, yielded, n_yields, d_runs, g_runs, last_d, last_g>>
scaleVars == <<sc_x, sc_out>>
lossVars  == <<loss_in, loss_out>>
nanVars   == <<diverged, nan_step>>
cellVars  == <<data_dir, train_file, test_file, fs0, error, net_built>>
vars == <<pc, dataVars, argVars, loopVars, params, outVars, histVars, scaleVars,
          lossVars, nanVars, cellVars>>

\* -------------------------------------------------------------- Dataset
\* X[:,:,:,lo:hi]
LastAxisSlice(X, lo, hi) == [p \in DOMAIN X |-> Slice(X[p], lo, hi)]

\* np.rollaxis(X, 3): the sample axis becomes the leading one
rollaxis(X) == [i \in 1..Len(X[1]) |-> [p \in DOMAIN X |-> X[p][i]]]

\* val_frac = <<k, d>> is exactly representable as a float
Dyadic(vf) == vf[2] \in {1, 2, 4, 8}

\* int(len(test['y'])*(1 - val_frac)); for an inexact val_frac the float product
\* of an integral exact value may land just below it
split_idx_values(n, vf) ==
    LET num == n * (vf[2] - vf[1])
    IN  {num \div vf[2]} \cup
        (IF ~Dyadic(vf) /\ num % vf[2] = 0 /\ num >= vf[2]
         THEN {(num \div vf[2]) - 1} ELSE {})

\* labels of the validation partition: test['y'][split_idx:]
valid_y_off_by_one(test, split_idx) == Slice(test.y, split_idx + 1, Len(test.y))

valid_y_of(test, split_idx) == Slice(test.y, split_idx, Len(test.y))

\* Dataset.__init__ with the default scale_func; the fields it sets
Dataset_init(train, test, split_idx, sh) ==
    [test_x  |-> rollaxis(LastAxisSlice(test.X, 0, split_idx)),
     valid_x |-> rollaxis(LastAxisSlice(test.X, split_idx, Len(test.y))),
     test_y  |-> Slice(test.y, 0, split_idx),
     valid_y |-> valid_y_of(test, split_idx),
     train_x |-> rollaxis(train.X),
     train_y |-> train.y,
     shuffle |-> sh]

ValFracs == {vf \in (0..MaxDen) \X (1..MaxDen) : vf[1] <= vf[2]}

DefaultValFrac == <<1, 2>>

\* ------------------------------------------------- network variables, model_opt
\* The tf variables of the graph GAN.__init__ builds: per scope, the trainable
\* weights and the batch-normalization moving statistics (not trainable).
AllVars == [scope : {"generator", "discriminator"}, kind : {"weights", "moving_stats"}]

\* tf.trainable_variables()
t_vars == {v \in AllVars : v.kind = "weights"}

\* var_list of the discriminator's minimize: names starting with 'discriminator'
d_vars_all_trainable == t_vars

d_vars == {v \in t_vars : v.scope = "discriminator"}

\* var_list of the generator's minimize: names starting with 'generator'
g_vars == {v \in t_vars : v.scope = "generator"}

\* tf.get_collection(tf.GraphKeys.UPDATE_OPS): the moving-statistics assignments of
\* every batch-normalization layer built with training=True, in both scopes
UPDATE_OPS == {v \in AllVars : v.kind = "moving_stats"}

\* the variables one run of d_train_opt / g_train_opt assigns: under
\* control_dependencies(UPDATE_OPS) every update op runs before the Adam step
d_train_opt == UPDATE_OPS \cup d_vars

g_train_opt == UPDATE_OPS \cup g_vars

\* sess.run(op): every variable the op assigns gets a new version
run_op(ps, op) == [v \in AllVars |-> IF v \in op THEN ps[v] + 1 ELSE ps[v]]

\* tf.global_variables_initializer()
initial_params == [v \in AllVars |-> 0]

\* ---------------------------------------------------------------- train
NoNoise == [rows |-> 0, draw |-> -1]

\* np.random.uniform(-1, 1, size=(rows, z_size)): the k-th draw of the run
uniform(rows, k) == [rows |-> rows, draw |-> k]

\* feed_dict of sess.run(net.d_opt, ...)
d_feed == [input_real |-> x, input_z |-> batch_z]

\* feed_dict of sess.run(net.g_opt, ...)
g_feed_redrawn == [input_real |-> x, input_z |-> uniform(batch_size, draws)]

g_feed == [input_real |-> x, input_z |-> batch_z]

\* steps % print_every == 0
log_due == steps % print_every = 0

\* steps % show_every == 0
show_due == steps % show_every = 0

\* some cell of the batch is 0/0
HasNaN(b) == \E i \in DOMAIN b : \E p \in DOMAIN b[i] : b[i][p].v.d = 0

\* d_loss is a mean over the logits of input_real and of the generated images:
\* it is finite only when the fed batch and every variable are
d_loss_finite_ignoring_x == ~diverged

d_loss_finite == ~diverged /\ ~HasNaN(x)

\* g_loss depends on input_z and the variables only
g_loss_finite == ~diverged

\* (train_loss_d, train_loss_g): d_loss fed batch_z and x, g_loss fed batch_z alone,
\* both evaluated on the current variables; `step` records when
loss_record ==
    [step |-> steps,
     d |-> [params |-> params, input_z |-> batch_z, real_rows |-> Len(x),
            finite |-> d_loss_finite],
     g |-> [params |-> params, input_z |-> batch_z, finite |-> g_loss_finite]]

\* feed of the sampling run
sample_feed_batch_z == batch_z

sample_feed == sample_z

\* sess.run(generator(net.input_z, 3, reuse=True, training=False), {input_z: sample_z})
gen_samples ==
    [step |-> steps, input_z |-> sample_feed, training |-> FALSE,
     weights |-> params[[scope |-> "generator", kind |-> "weights"]],
     stats |-> params[[scope |-> "generator", kind |-> "moving_stats"]]]

\* self.train_y = self.train_y[idx]
shuffled_train_y_unpermuted(idx) == SubSeq(train_y, 1, Len(idx))

shuffled_train_y(idx) == take(train_y, idx)

\* len(dataset.train_x): `dataset` is the module-level name, not self
global_dataset_len == IF dataset_len = -1 THEN Len(train_x) ELSE dataset_len

\* the body of train up to its loops, entered with the given arguments
train_call(ep, bs, pe, se) ==
    /\ epochs' = ep
    /\ batch_size' = bs
    /\ print_every' = pe
    /\ show_every' = se
    /\ sample_z' = uniform(SampleRows, draws)
    /\ draws' = draws + 1
    /\ samples' = <<>>
    /\ losses' = <<>>
    /\ steps' = 0
    /\ params' = initial_params
    /\ e' = 0
    /\ pc' = "for_epoch"
    /\ UNCHANGED <<dataVars, ii, x, y, batch_z, outVars, at_call, yielded, n_yields, d_runs,
                   g_runs, last_d, last_g, scaleVars, lossVars, nanVars, cellVars>>

\* train(net, dataset, epochs, batch_size, print_every, show_every)
train_begin ==
    /\ pc = "ready"
    /\ \E ep \in 0..MaxEpochs, bs \in 1..MaxBatch, pe \in 1..MaxEvery, se \in 1..MaxEvery :
          train_call(ep, bs, pe, se)

\* for e in range(epochs): dataset.batches(batch_size) runs up to its loop
batches_enter ==
    /\ pc = "for_epoch"
    /\ e < epochs
    /\ at_call' = Range(train_y)
    /\ yielded' = <<>>
    /\ IF shuffle
       THEN \E idx \in Perms(global_dataset_len) :
              IF IndexError(train_x, idx)
              THEN /\ pc' = "raised"
                   /\ UNCHANGED <<train_x, train_y, ii>>
              ELSE /\ train_x' = take(train_x, idx)
                   /\ train_y' = shuffled_train_y(idx)
                   /\ ii' = 0
                   /\ pc' = "for_batch"
       ELSE /\ ii' = 0
            /\ pc' = "for_batch"
            /\ UNCHANGED <<train_x, train_y>>
    /\ UNCHANGED <<trainset, testset, val_frac, test_x, test_y, valid_x, valid_y,
                   shuffle, dataset_len, argVars, e, x, y, steps, sample_z, batch_z,
                   samples, losses, params, outVars, draws, n_yields, d_runs, g_runs,
                   last_d, last_g, scaleVars, lossVars, nanVars, cellVars>>

\* for ii in range(0, len(self.train_y), batch_size): yield the next slice, or end
\* the epoch; ii holds the start of the next slice
batches_next ==
    /\ pc = "for_batch"
    /\ IF ii < Len(train_y)
       THEN /\ x' = scaler(Slice(train_x, ii, ii + batch_size))
            /\ y' = Slice(train_y, ii, ii + batch_size)
            /\ yielded' = Append(yielded, [x |-> x', y |-> y'])
            /\ n_yields' = n_yields + 1
            /\ nan_step' = IF nan_step = 0 /\ HasNaN(x') THEN steps + 1 ELSE nan_step
            /\ ii' = ii + batch_size
            /\ pc' = "step"
            /\ e' = e
       ELSE /\ e' = e + 1
            /\ pc' = "for_epoch"
            /\ UNCHANGED <<x, y, yielded, n_yields, ii, nan_step>>
    /\ UNCHANGED <<dataVars, argVars, steps, sample_z, batch_z, samples, losses,
                   params, outVars, draws, at_call, d_runs, g_runs, last_d, last_g,
                   scaleVars, lossVars, diverged, cellVars>>

\* size=(batch_size, z_size): the row count of the noise batch is the argument
\* batch_size of train, not the row count of the real batch
batch_z_rows_of_x == Len(x)

batch_z_rows == batch_size

\* steps += 1; batch_z = np.random.uniform(-1, 1, size=(batch_size, z_size))
step_begin ==
    /\ pc = "step"
    /\ steps' = steps + 1
    /\ batch_z' = uniform(batch_z_rows, draws)
    /\ draws' = draws + 1
    /\ pc' = "d_opt"
    /\ UNCHANGED <<dataVars, argVars, e, ii, x, y, sample_z, samples, losses, params,
                   outVars, at_call, yielded, n_yields, d_runs, g_runs, last_d,
                   last_g, scaleVars, lossVars, nanVars, cellVars>>

\* _ = sess.run(net.d_opt, feed_dict={net.input_real: x, net.input_z: batch_z})
\* the gradients of a non-finite loss are NaN and Adam writes them to the weights
run_d_opt ==
    /\ pc = "d_opt"
    /\ params' = run_op(params, d_train_opt)
    /\ diverged' = (diverged \/ ~d_loss_finite)
    /\ d_runs' = d_runs + 1
    /\ last_d' = d_feed
    /\ pc' = "g_opt"
    /\ UNCHANGED <<dataVars, argVars, loopVars, outVars, draws, at_call, yielded,
                   n_yields, g_runs, last_g, scaleVars, lossVars, nan_step, cellVars>>

\* _ = sess.run(net.g_opt, feed_dict={net.input_z: batch_z, net.input_real: x})
run_g_opt ==
    /\ pc = "g_opt"
    /\ params' = run_op(params, g_train_opt)
    /\ diverged' = (diverged \/ ~g_loss_finite)
    /\ g_runs' = g_runs + 1
    /\ last_g' = g_feed
    /\ pc' = "log"
    /\ UNCHANGED <<dataVars, argVars, loopVars, outVars, draws, at_call, yielded,
                   n_yields, d_runs, last_d, scaleVars, lossVars, nan_step, cellVars>>

\* if steps % print_every == 0: evaluate both losses and append them
periodic_log ==
    /\ pc = "log"
    /\ losses' = IF log_due THEN Append(losses, loss_record) ELSE losses
    /\ pc' = "show"
    /\ UNCHANGED <<dataVars, argVars, e, ii, x, y, steps, sample_z, batch_z, samples,
                   params, outVars, histVars, scaleVars, lossVars, nanVars, cellVars>>

\* if steps % show_every == 0: generate from sample_z and append
periodic_sample ==
    /\ pc = "show"
    /\ samples' = IF show_due THEN Append(samples, gen_samples) ELSE samples
    /\ pc' = "for_batch"
    /\ UNCHANGED <<dataVars, argVars, e, ii, x, y, steps, sample_z, batch_z, losses,
                   params, outVars, histVars, scaleVars, lossVars, nanVars, cellVars>>

\* after the last epoch: saver.save(sess, './checkpoints/generator.ckpt')
save_checkpoint ==
    /\ pc = "for_epoch"
    /\ e >= epochs
    /\ ckpt' = Append(ckpt, params)
    /\ pc' = "dump"
    /\ UNCHANGED <<dataVars, argVars, loopVars, params, pkl, ret, histVars, scaleVars,
                   lossVars, nanVars, cellVars>>

\* pkl.dump(samples, f)
dump_samples ==
    /\ pc = "dump"
    /\ pkl' = Append(pkl, samples)
    /\ pc' = "return"
    /\ UNCHANGED <<dataVars, argVars, loopVars, params, ckpt, ret, histVars, scaleVars,
                   lossVars, nanVars, cellVars>>

\* return losses, samples
train_return ==
    /\ pc = "return"
    /\ ret' = [losses |-> losses, samples |-> samples]
    /\ pc' = "done"
    /\ UNCHANGED <<dataVars, argVars, loopVars, params, ckpt, pkl, histVars, scaleVars,
                   lossVars, nanVars, cellVars>>

NoRet == [losses |-> <<>>, samples |-> <<>>, none |-> TRUE]

\* nothing of train has run
TrainFresh ==
    /\ epochs = 0 /\ batch_size = 1 /\ print_every = 1 /\ show_every = 1
    /\ e = 0 /\ ii = 0 /\ x = <<>> /\ y = <<>> /\ steps = 0
    /\ sample_z = NoNoise /\ batch_z = NoNoise
    /\ samples = <<>> /\ losses = <<>>
    /\ params = initial_params
    /\ ckpt = <<>> /\ pkl = <<>> /\ ret = NoRet
    /\ draws = 0 /\ at_call = {} /\ yielded = <<>> /\ n_yields = 0
    /\ d_runs = 0 /\ g_runs = 0
    /\ last_d = [input_real |-> <<>>, input_z |-> NoNoise]
    /\ last_g = [input_real |-> <<>>, input_z |-> NoNoise]
    /\ diverged = FALSE /\ nan_step = 0

\* the data cells have run: both files are in data/, loaded, and net is built
CellsDone ==
    /\ data_dir = TRUE /\ train_file = "ok" /\ test_file = "ok"
    /\ fs0 = [dir |-> TRUE, train |-> "ok", test |-> "ok"]
    /\ error = "none" /\ net_built = TRUE

\* no lone scale call, no lone loss evaluation
NoCalls == sc_x = <<>> /\ sc_out = <<>> /\ loss_in = <<>> /\ loss_out = <<>>

\* the state after `dataset = Dataset(trainset, testset, shuffle=...)` and
\* `net = GAN(...)`; the module-level name `dataset` is this instance or another
\* one (it is read only by a shuffling batches())
Init ==
    /\ pc = "ready"
    /\ \E n \in 0..MaxN : trainset = RawSet(n)
    /\ testset = RawSet(MaxTest)
    /\ val_frac = DefaultValFrac
    /\ shuffle \in BOOLEAN
    /\ \E s \in split_idx_values(Len(testset.y), val_frac) :
          LET d == Dataset_init(trainset, testset, s, shuffle)
          IN  /\ train_x = d.train_x /\ train_y = d.train_y
              /\ test_x = d.test_x /\ test_y = d.test_y
              /\ valid_x = d.valid_x /\ valid_y = d.valid_y
    /\ dataset_len \in (IF shuffle THEN (-1)..MaxN ELSE {-1})
    /\ TrainFresh
    /\ CellsDone
    /\ NoCalls

Next ==
    \/ train_begin
    \/ batches_enter
    \/ batches_next
    \/ step_begin
    \/ run_d_opt
    \/ run_g_opt
    \/ periodic_log
    \/ periodic_sample
    \/ save_checkpoint
    \/ dump_samples
    \/ train_return

Spec == Init /\ [][Next]_vars

\* ------------------------------------------- Dataset construction on its own
InitData ==
    /\ pc = "new"
    /\ \E n \in 0..MaxN : trainset = RawSet(n)
    /\ \E m \in 0..MaxTest : testset = RawSet(m)
    /\ val_frac = DefaultValFrac
    /\ shuffle = FALSE
    /\ train_x = <<>> /\ train_y = <<>> /\ test_x = <<>> /\ test_y = <<>>
    /\ valid_x = <<>> /\ valid_y = <<>>
    /\ dataset_len = -1
    /\ TrainFresh
    /\ CellsDone
    /\ NoCalls

\* dataset = Dataset(trainset, testset, val_frac=vf, shuffle=sh)
construct ==
    /\ pc = "new"
    /\ \E vf \in ValFracs, sh \in BOOLEAN :
          \E s \in split_idx_values(Len(testset.y), vf) :
            LET d == Dataset_init(trainset, testset, s, sh)
            IN  /\ val_frac' = vf
                /\ shuffle' = sh
                /\ train_x' = d.train_x /\ train_y' = d.train_y
                /\ test_x' = d.test_x /\ test_y' = d.test_y
                /\ valid_x' = d.valid_x /\ valid_y' = d.valid_y
    /\ pc' = "constructed"
    /\ UNCHANGED <<trainset, testset, dataset_len, argVars, loopVars, params, outVars,
                   histVars, scaleVars, lossVars, nanVars, cellVars>>

NextData == construct

SpecData == InitData /\ [][NextData]_vars

\* ------------------------------------------------------ scale on its own
PixVals == {0, 1, PixMax - 1, PixMax}

\* image batches of 1..MaxLen one-cell images with pixel values in PixVals
PixelBatches ==
    UNION {{[i \in 1..k |-> <<[id |-> i, px |-> f[i]]>>] : f \in [1..k -> PixVals]} :
           k \in 1..MaxLen}

InitScale ==
    /\ pc = "scale"
    /\ trainset = RawSet(0) /\ testset = RawSet(0)
    /\ val_frac = DefaultValFrac
    /\ shuffle = FALSE
    /\ train_x = <<>> /\ train_y = <<>> /\ test_x = <<>> /\ test_y = <<>>
    /\ valid_x = <<>> /\ valid_y = <<>>
    /\ dataset_len = -1
    /\ TrainFresh
    /\ CellsDone
    /\ sc_x \in PixelBatches
    /\ sc_out = <<>> /\ loss_in = <<>> /\ loss_out = <<>>

\* scale(x) with the default feature_range
scale_call ==
    /\ pc = "scale"
    /\ sc_out' = scale(sc_x, -1, 1)
    /\ pc' = "scaled"
    /\ UNCHANGED <<dataVars, argVars, loopVars, params, outVars, histVars, sc_x,
                   lossVars, nanVars, cellVars>>

NextScale == scale_call

SpecScale == InitScale /\ [][NextScale]_vars

\* ------------------------------------------------------------ model_loss
\* The bodies of generator and discriminator are left to the reader of the
\* notebook; Gnet and Dnet stand for them: any function of the scope's weights
\* and one input row.  A variable scope is <<name, k>>: k = 0 is the scope the
\* first call creates, k = 1 the one a second call without reuse would create.
MaxW == 1     \* weight values 0..MaxW
MaxAbs == 2   \* logits range over -MaxAbs..MaxAbs

Gnet(w, z) == (w + z) % 3

Dnet(w, img) == ((w + 2 * img) % (2 * MaxAbs + 1)) - MaxAbs

\* with tf.variable_scope(name, reuse=reuse): the scope whose variables the body
\* uses, given the scopes created so far
variable_scope(name, reuse, created) ==
    IF reuse \/ <<name, 0>> \notin created THEN <<name, 0>> ELSE <<name, 1>>

\* generator(z, output_dim, reuse=reuse, alpha=alpha): the output rows
generator(W, z, reuse, created) ==
    [j \in DOMAIN z |-> Gnet(W[variable_scope("generator", reuse, created)], z[j])]

\* discriminator(x, reuse=reuse, alpha=alpha): the logits
discriminator(W, imgs, reuse, created) ==
    [i \in DOMAIN imgs |-> Dnet(W[variable_scope("discriminator", reuse, created)], imgs[i])]

\* Loss values are exact: (ip + sum over t of lt[t] * log(1 + exp(-t))) / den
IMax(a, b) == IF a >= b THEN a ELSE b

Abs(a) == IF a >= 0 THEN a ELSE -a

\* tf.nn.sigmoid_cross_entropy_with_logits for one element:
\* max(x, 0) - x * z + log(1 + exp(-abs(x)))
sigmoid_cross_entropy_with_logits(logit, label) ==
    [ip |-> IMax(logit, 0) - logit * label,
     lt |-> [t \in 0..MaxAbs |-> IF t = Abs(logit) THEN 1 ELSE 0],
     den |-> 1]

RECURSIVE SumTo(_, _)
SumTo(f, k) == IF k = 0 THEN 0 ELSE f[k] + SumTo(f, k - 1)

\* tf.reduce_mean over a non-empty vector of loss values
reduce_mean(vs) ==
    [ip |-> SumTo([k \in DOMAIN vs |-> vs[k].ip], Len(vs)),
     lt |-> [t \in 0..MaxAbs |-> SumTo([k \in DOMAIN vs |-> vs[k].lt[t]], Len(vs))],
     den |-> Len(vs)]

\* a + b
add(a, b) ==
    [ip |-> a.ip * b.den + b.ip * a.den,
     lt |-> [t \in 0..MaxAbs |-> a.lt[t] * b.den + b.lt[t] * a.den],
     den |-> a.den * b.den]

ones_like(v) == [i \in DOMAIN v |-> 1]

zeros_like(v) == [i \in DOMAIN v |-> 0]

\* labels of d_loss_fake
d_loss_fake_labels_ones(v) == ones_like(v)

d_loss_fake_labels(v) == zeros_like(v)

cross_entropies(logits, labels) ==
    [i \in DOMAIN logits |-> sigmoid_cross_entropy_with_logits(logits[i], labels[i])]

\* model_loss(input_real, input_z, output_dim, alpha) evaluated on variables W
model_loss(W, input_real, input_z) ==
    LET g_model       == generator(W, input_z, FALSE, {})
        d_logits_real == discriminator(W, input_real, FALSE, {<<"generator", 0>>})
        d_logits_fake == discriminator(W, g_model, TRUE,
                                       {<<"generator", 0>>, <<"discriminator", 0>>})
        d_loss_real   == reduce_mean(cross_entropies(d_logits_real, ones_like(d_logits_real)))
        d_loss_fake   == reduce_mean(cross_entropies(d_logits_fake,
                                                     d_loss_fake_labels(d_logits_fake)))
        g_loss        == reduce_mean(cross_entropies(d_logits_fake, ones_like(d_logits_fake)))
    IN  [d_loss |-> add(d_loss_real, d_loss_fake), g_loss |-> g_loss]

Scopes == {<<"generator", 0>>, <<"discriminator", 0>>, <<"discriminator", 1>>}

\* non-empty batches of at most MaxBatch rows, each row a value 0..2
Rows == UNION {[1..k -> 0..2] : k \in 1..MaxBatch}

InitLoss ==
    /\ pc = "loss"
    /\ trainset = RawSet(0) /\ testset = RawSet(0)
    /\ val_frac = DefaultValFrac
    /\ shuffle = FALSE
    /\ train_x = <<>> /\ train_y = <<>> /\ test_x = <<>> /\ test_y = <<>>
    /\ valid_x = <<>> /\ valid_y = <<>>
    /\ dataset_len = -1
    /\ TrainFresh
    /\ CellsDone
    /\ sc_x = <<>> /\ sc_out = <<>>
    /\ loss_in \in [W : [Scopes -> 0..MaxW], input_real : Rows, input_z : Rows]
    /\ loss_out = <<>>

\* (net.d_loss, net.g_loss) evaluated with the given feeds
eval_losses ==
    /\ pc = "loss"
    /\ loss_out' = model_loss(loss_in.W, loss_in.input_real, loss_in.input_z)
    /\ pc' = "lossed"
    /\ UNCHANGED <<dataVars, argVars, loopVars, params, outVars, histVars, scaleVars,
                   loss_in, nanVars, cellVars>>

NextLoss == eval_losses

SpecLoss == InitLoss /\ [][NextLoss]_vars

\* ------------------------------------------ the cells of the notebook, in order
\* A run executes the cells top to bottom and stops at the first exception.
\* A file of data/ is absent, present but not readable by loadmat (a partial
\* download, say), or a readable .mat file.
FileStates == {"absent", "unreadable", "ok"}

NotLoaded == [X |-> <<>>, y |-> <<>>, none |-> TRUE]

\* what urlretrieve can do: raise, or write what the server sent
Downloads == {"URLError", "unreadable", "ok"}

\* not isfile(data_dir + name)
must_fetch_always(f) == TRUE

must_fetch(f) == f = "absent"

InitCells ==
    /\ pc = "check_dir"
    /\ data_dir \in BOOLEAN
    /\ train_file \in (IF data_dir THEN FileStates ELSE {"absent"})
    /\ test_file \in (IF data_dir THEN FileStates ELSE {"absent"})
    /\ fs0 = [dir |-> data_dir, train |-> train_file, test |-> test_file]
    /\ error = "none" /\ net_built = FALSE
    /\ trainset = NotLoaded /\ testset = NotLoaded
    /\ val_frac = DefaultValFrac
    /\ shuffle = FALSE
    /\ train_x = <<>> /\ train_y = <<>> /\ test_x = <<>> /\ test_y = <<>>
    /\ valid_x = <<>> /\ valid_y = <<>>
    /\ dataset_len = -1
    /\ TrainFresh
    /\ NoCalls

\* if not isdir(data_dir): raise Exception("Data directory doesn't exist!")
check_dir ==
    /\ pc = "check_dir"
    /\ IF data_dir
       THEN pc' = "fetch_train" /\ UNCHANGED error
       ELSE pc' = "stopped" /\ error' = "Exception"
    /\ UNCHANGED <<dataVars, argVars, loopVars, params, outVars, histVars, scaleVars,
                   lossVars, nanVars, data_dir, train_file, test_file, fs0, net_built>>

\* if not isfile(data_dir + "train_32x32.mat"): urlretrieve(...); a download that
\* raises leaves no file or a partial one
fetch_train ==
    /\ pc = "fetch_train"
    /\ IF must_fetch(train_file)
       THEN \E got \in Downloads :
              IF got = "URLError"
              THEN /\ train_file' \in {train_file, "unreadable"}
                   /\ error' = "URLError"
                   /\ pc' = "stopped"
              ELSE /\ train_file' = got
                   /\ pc' = "fetch_test"
                   /\ UNCHANGED error
       ELSE pc' = "fetch_test" /\ UNCHANGED <<train_file, error>>
    /\ UNCHANGED <<dataVars, argVars, loopVars, params, outVars, histVars, scaleVars,
                   lossVars, nanVars, data_dir, test_file, fs0, net_built>>

\* if not isfile(data_dir + "test_32x32.mat"): urlretrieve(...)
fetch_test ==
    /\ pc = "fetch_test"
    /\ IF must_fetch(test_file)
       THEN \E got \in Downloads :
              IF got = "URLError"
              THEN /\ test_file' \in {test_file, "unreadable"}
                   /\ error' = "URLError"
                   /\ pc' = "stopped"
              ELSE /\ test_file' = got
                   /\ pc' = "loadmat_train"
                   /\ UNCHANGED error
       ELSE pc' = "loadmat_train" /\ UNCHANGED <<test_file, error>>
    /\ UNCHANGED <<dataVars, argVars, loopVars, params, outVars, histVars, scaleVars,
                   lossVars, nanVars, data_dir, train_file, fs0, net_built>>

\* trainset = loadmat(data_dir + 'train_32x32.mat')
loadmat_train ==
    /\ pc = "loadmat_train"
    /\ IF train_file = "ok"
       THEN /\ \E n \in 0..MaxN : trainset' = RawSet(n)
            /\ pc' = "loadmat_test"
            /\ UNCHANGED error
       ELSE /\ error' = "loadmat"
            /\ pc' = "stopped"
            /\ UNCHANGED trainset
    /\ UNCHANGED <<testset, val_frac, train_x, train_y, test_x, test_y, valid_x,
                   valid_y, shuffle, dataset_len, argVars, loopVars, params, outVars,
                   histVars, scaleVars, lossVars, nanVars, data_dir, train_file,
                   test_file, fs0, net_built>>

\* testset = loadmat(data_dir + 'test_32x32.mat')
loadmat_test ==
    /\ pc = "loadmat_test"
    /\ IF test_file = "ok"
       THEN /\ testset' = RawSet(MaxTest)
            /\ pc' = "build_net"
            /\ UNCHANGED error
       ELSE /\ error' = "loadmat"
            /\ pc' = "stopped"
            /\ UNCHANGED testset
    /\ UNCHANGED <<trainset, val_frac, train_x, train_y, test_x, test_y, valid_x,
                   valid_y, shuffle, dataset_len, argVars, loopVars, params, outVars,
                   histVars, scaleVars, lossVars, nanVars, data_dir, train_file,
                   test_file, fs0, net_built>>

\* net = GAN(real_size, z_size, learning_rate, alpha=alpha, beta1=beta1)
build_net ==
    /\ pc = "build_net"
    /\ net_built' = TRUE
    /\ pc' = "build_dataset"
    /\ UNCHANGED <<dataVars, argVars, loopVars, params, outVars, histVars, scaleVars,
                   lossVars, nanVars, data_dir, train_file, test_file, fs0, error>>

\* dataset = Dataset(trainset, testset)
build_dataset ==
    /\ pc = "build_dataset"
    /\ \E s \in split_idx_values(Len(testset.y), DefaultValFrac) :
          LET d == Dataset_init(trainset, testset, s, FALSE)
          IN  /\ val_frac' = DefaultValFrac
              /\ shuffle' = d.shuffle
              /\ train_x' = d.train_x /\ train_y' = d.train_y
              /\ test_x' = d.test_x /\ test_y' = d.test_y
              /\ valid_x' = d.valid_x /\ valid_y' = d.valid_y
    /\ pc' = "call_train"
    /\ UNCHANGED <<trainset, testset, dataset_len, argVars, loopVars, params, outVars,
                   histVars, scaleVars, lossVars, nanVars, cellVars>>

\* losses, samples = train(net, dataset, epochs, batch_size, figsize=(10,5))
call_train ==
    /\ pc = "call_train"
    /\ train_call(NotebookEpochs, NotebookBatchSize, DefaultPrintEvery, DefaultShowEvery)

NextCells ==
    \/ check_dir
    \/ fetch_train
    \/ fetch_test
    \/ loadmat_train
    \/ loadmat_test
    \/ build_net
    \/ build_dataset
    \/ call_train
    \/ batches_enter
    \/ batches_next
    \/ step_begin
    \/ run_d_opt
    \/ run_g_opt
    \/ periodic_log
    \/ periodic_sample
    \/ save_checkpoint
    \/ dump_samples
    \/ train_return

SpecCells == InitCells /\ [][NextCells]_vars

\* ================================================================ claims
InStep == pc \in {"d_opt", "g_opt", "log", "show"}

BetweenSteps == pc \in {"for_epoch", "for_batch", "dump", "return", "done", "raised"}

\* C1: every yielded batch gets exactly one discriminator update and then exactly
\* one generator update, discriminator first; both are fed the same real batch and
\* the same noise batch, which is the draw made for this step; no loss record and
\* no sample of a step exists before both updates of that step have run.
C1_UpdateOrder ==
    /\ g_runs <= d_runs /\ d_runs <= g_runs + 1
    /\ pc = "step" => d_runs = n_yields - 1 /\ g_runs = n_yields - 1
    /\ InStep => /\ steps = n_yields
                 /\ batch_z = uniform(batch_size, steps)
                 /\ draws = steps + 1
                 /\ x = yielded[Len(yielded)].x
    /\ pc = "d_opt" => d_runs = n_yields - 1 /\ g_runs = n_yields - 1
    /\ pc = "g_opt" => /\ d_runs = n_yields /\ g_runs = n_yields - 1
                       /\ last_d = [input_real |-> x, input_z |-> batch_z]
    /\ pc \in {"log", "show"} =>
          /\ d_runs = n_yields /\ g_runs = n_yields
          /\ last_d = [input_real |-> x, input_z |-> batch_z]
          /\ last_g = last_d
    /\ BetweenSteps => d_runs = n_yields /\ g_runs = n_yields
    /\ \A k \in DOMAIN losses : losses[k].step <= d_runs /\ losses[k].step <= g_runs
    /\ \A k \in DOMAIN samples : samples[k].step <= d_runs /\ samples[k].step <= g_runs

\* C1 witness: the second step has run both updates and is about to sample
C1_Witness ==
    pc = "show" /\ steps = 2 /\ d_runs = 2 /\ g_runs = 2 /\ Len(losses) >= 1

\* a batches() call has ended: its generator is exhausted, or it raised
BatchesEnded == (pc = "for_epoch" /\ e > 0) \/ pc = "raised"

\* C2: one batches(batch_size) call on a Dataset with N training samples yields
\* ceil(N / batch_size) consecutive slices, each of batch_size samples except
\* possibly the last, and every training sample is in exactly one batch.
C2_Original ==
    BatchesEnded =>
        /\ Len(yielded) = CeilDiv(Cardinality(at_call), batch_size)
        /\ \A k \in DOMAIN yielded :
              /\ yielded[k].y = Slice(train_y, (k - 1) * batch_size, k * batch_size)
              /\ Len(yielded[k].x) = Len(yielded[k].y)
              /\ k < Len(yielded) => Len(yielded[k].y) = batch_size
        /\ \A l \in at_call :
              Cardinality({ki \in (DOMAIN yielded) \X (1..MaxBatch) :
                              /\ ki[2] \in DOMAIN yielded[ki[1]].y
                              /\ yielded[ki[1]].y[ki[2]] = l}) = 1

\* C3: on return the loss history has floor(epochs * ceil(N / batch_size) /
\* print_every) records, the k-th one taken at step k * print_every.
C3_Original ==
    pc = "done" =>
        /\ Len(ret.losses) =
              (epochs * CeilDiv(Len(trainset.y), batch_size)) \div print_every
        /\ \A k \in DOMAIN ret.losses : ret.losses[k].step = k * print_every

\* steps whose sampling phase is over
StepsShown == IF InStep THEN steps - 1 ELSE steps

\* C4: sample_z is the one draw made before the first batch; a sample is appended
\* exactly at the multiples of show_every, each generated from sample_z; on return
\* the sample history has floor(total_steps / show_every) entries.
C4_SampleHistory ==
    pc # "ready" =>
        /\ sample_z = uniform(SampleRows, 0)
        /\ Len(samples) = StepsShown \div show_every
        /\ \A k \in DOMAIN samples :
              /\ samples[k].step = k * show_every
              /\ samples[k].input_z = sample_z
        /\ pc = "done" => ret.samples = samples /\ Len(ret.samples) = steps \div show_every

\* C4 witness: two samples taken, in different steps, and train has returned
C4_Witness ==
    pc = "done" /\ Len(ret.samples) = 2 /\ show_every = 2 /\ steps >= 4

\* C5: train ends with the checkpoint and the sample dump each written exactly
\* once, after the last batch of the last epoch, and returns the full histories.
C5_Original ==
    /\ Len(ckpt) <= 1 /\ Len(pkl) <= 1
    /\ Len(ckpt) + Len(pkl) > 0 => e = epochs /\ pc \in {"dump", "return", "done"}
    /\ pc \in {"done", "raised"} =>
          /\ Len(ckpt) = 1 /\ Len(pkl) = 1
          /\ ret = [losses |-> losses, samples |-> samples]
          /\ pkl[1] = ret.samples

Weights(scope) == [scope |-> scope, kind |-> "weights"]

Stats(scope) == [scope |-> scope, kind |-> "moving_stats"]

\* C6 as stated: the discriminator update changes no generator variable, the
\* generator update changes no discriminator variable (weights and moving
\* statistics alike), logging and sampling change no variable.
C6_Original ==
    [][/\ pc = "d_opt" => /\ params'[Weights("generator")] = params[Weights("generator")]
                          /\ params'[Stats("generator")] = params[Stats("generator")]
       /\ pc = "g_opt" => /\ params'[Weights("discriminator")] = params[Weights("discriminator")]
                          /\ params'[Stats("discriminator")] = params[Stats("discriminator")]
       /\ pc \in {"log", "show"} => params' = params]_vars

\* C6 amended: the learnable weights of a network are changed only by its own
\* update step; either update step refreshes the moving statistics of both
\* networks; logging and sampling change no variable.
C6_WeightsFrame ==
    [][/\ pc = "d_opt" => /\ params'[Weights("generator")] = params[Weights("generator")]
                          /\ params'[Weights("discriminator")] # params[Weights("discriminator")]
       /\ pc = "g_opt" => /\ params'[Weights("discriminator")] = params[Weights("discriminator")]
                          /\ params'[Weights("generator")] # params[Weights("generator")]
       /\ pc \in {"d_opt", "g_opt"} =>
             \A sc \in {"generator", "discriminator"} : params'[Stats(sc)] # params[Stats(sc)]
       /\ pc \notin {"d_opt", "g_opt"} => params' = params]_vars

\* C6 witness: one discriminator update has run, the generator update has not
C6_Witness ==
    /\ pc = "g_opt"
    /\ params[Weights("discriminator")] = 1 /\ params[Weights("generator")] = 0
    /\ params[Stats("generator")] = 1

\* C7: in every yielded pair the label at index i is the one the raw data pairs
\* with the image at index i, over any number of batches() calls; the stored
\* training arrays stay paired under the in-place shuffle.
C7_Pairing ==
    /\ Len(train_x) = Len(train_y)
    /\ \A i \in DOMAIN train_y : train_y[i] = Label(ImgId(train_x[i]))
    /\ \A k \in DOMAIN yielded :
          /\ Len(yielded[k].x) = Len(yielded[k].y)
          /\ \A i \in DOMAIN yielded[k].y :
                yielded[k].y[i] = Label(ImgId(yielded[k].x[i]))

\* C8: after construction the validation and test partitions together have the
\* n samples of the held-out collection, share no sample, and images and labels
\* are cut at the same index, so each partition's i-th image keeps its label.
C8_Partition ==
    pc = "constructed" =>
        /\ Len(valid_y) + Len(test_y) = Len(testset.y)
        /\ Len(valid_x) = Len(valid_y) /\ Len(test_x) = Len(test_y)
        /\ Range(valid_y) \cap Range(test_y) = {}
        /\ {ImgId(valid_x[i]) : i \in DOMAIN valid_x}
             \cap {ImgId(test_x[i]) : i \in DOMAIN test_x} = {}
        /\ {ImgId(valid_x[i]) : i \in DOMAIN valid_x}
             \cup {ImgId(test_x[i]) : i \in DOMAIN test_x} = 1..Len(testset.y)
        /\ \A i \in DOMAIN valid_y : valid_y[i] = Label(ImgId(valid_x[i]))
        /\ \A i \in DOMAIN test_y : test_y[i] = Label(ImgId(test_x[i]))
        /\ train_x = rollaxis(trainset.X) /\ train_y = trainset.y

\* C8 witness: an inexact val_frac and both partitions non-empty
C8_Witness ==
    /\ pc = "constructed" /\ val_frac = <<1, 3>>
    /\ Len(test_y) >= 1 /\ Len(valid_y) >= 1

ScaledCells == UNION {{sc_out[i][p] : p \in DOMAIN sc_out[i]} : i \in DOMAIN sc_out}

\* C9: for every batch with pixels in [0, 255] scale returns defined values
\* within [-1, 1], monotonic in the pixel value.
C9_Original ==
    pc = "scaled" =>
        /\ \A c \in ScaledCells : c.v.d > 0 /\ -c.v.d <= c.v.n /\ c.v.n <= c.v.d
        /\ \A a, b \in ScaledCells : a.px <= b.px => a.v.n * b.v.d <= b.v.n * a.v.d

\* log(1 + exp(t)) = max(t, 0) + log(1 + exp(-abs(t)))
Softplus(t) ==
    [ip |-> IMax(t, 0), lt |-> [u \in 0..MaxAbs |-> IF u = Abs(t) THEN 1 ELSE 0], den |-> 1]

\* the mean of Softplus(sign * logits[i])
MeanSoftplus(logits, sign) ==
    [ip |-> SumTo([k \in DOMAIN logits |-> Softplus(sign * logits[k]).ip], Len(logits)),
     lt |-> [u \in 0..MaxAbs |->
               Cardinality({k \in DOMAIN logits : Abs(logits[k]) = u})],
     den |-> Len(logits)]

\* equality of two loss values as numbers
SameValue(a, b) ==
    /\ a.ip * b.den = b.ip * a.den
    /\ \A t \in 0..MaxAbs : a.lt[t] * b.den = b.lt[t] * a.den

\* the logits one and the same discriminator weight set gives the real rows and
\* the generator's output on the noise rows
RealLogits ==
    [i \in DOMAIN loss_in.input_real |->
        Dnet(loss_in.W[<<"discriminator", 0>>], loss_in.input_real[i])]

FakeLogits ==
    [j \in DOMAIN loss_in.input_z |->
        Dnet(loss_in.W[<<"discriminator", 0>>],
             Gnet(loss_in.W[<<"generator", 0>>], loss_in.input_z[j]))]

\* C10: d_loss is the mean cross-entropy of the real logits against ones, i.e. the
\* mean of -log sigmoid(logit), plus the mean cross-entropy of the fake logits
\* against zeros, i.e. the mean of -log(1 - sigmoid(logit)); g_loss is the mean
\* cross-entropy of the same fake logits against ones; real and fake rows are
\* scored by one discriminator weight set, the fake rows being the generator's
\* output on the noise rows.
C10_ModelLoss ==
    pc = "lossed" =>
        /\ SameValue(loss_out.d_loss,
                     LET r == MeanSoftplus(RealLogits, -1)
                         f == MeanSoftplus(FakeLogits, 1)
                     IN  [ip |-> r.ip * f.den + f.ip * r.den,
                          lt |-> [t \in 0..MaxAbs |-> r.lt[t] * f.den + f.lt[t] * r.den],
                          den |-> r.den * f.den])
        /\ SameValue(loss_out.g_loss, MeanSoftplus(FakeLogits, -1))

\* C10 witness: real and fake batches of different sizes, positive and negative
\* fake logits, so that the two targets give different losses
C10_Witness ==
    /\ pc = "lossed"
    /\ Len(loss_in.input_real) # Len(loss_in.input_z)
    /\ \E j, k \in DOMAIN FakeLogits : FakeLogits[j] > 0 /\ FakeLogits[k] < 0
    /\ ~SameValue(loss_out.g_loss, MeanSoftplus(FakeLogits, 1))

\* C7 witness: a batch of two yielded by the second batches() call of a
\* shuffling Dataset whose order differs from the raw order
C7_Witness ==
    /\ shuffle /\ e = 1 /\ pc = "step"
    /\ Len(y) = 2 /\ train_y # trainset.y

\* C13: in every training step the noise batch fed to both updates has exactly
\* batch_size rows, whatever the row count of the real batch; when the size of
\* the training set the epoch iterates (len(self.train_y)) is not a multiple of
\* batch_size, the last step of the epoch feeds a real batch with fewer rows
\* than the noise batch, and in every other step the two row counts are equal
LastStepOfEpoch == ii >= Len(train_y)

C13_NoiseRows ==
    /\ InStep =>
          /\ batch_z.rows = batch_size
          /\ Len(x) >= 1
          /\ IF LastStepOfEpoch /\ Len(train_y) % batch_size # 0
             THEN Len(x) < batch_z.rows
             ELSE Len(x) = batch_z.rows
    /\ pc \in {"g_opt", "log", "show"} =>
          /\ last_d.input_z.rows = batch_size
          /\ Len(last_d.input_real) = Len(x)
    /\ pc \in {"log", "show"} =>
          /\ last_g.input_z.rows = batch_size
          /\ Len(last_g.input_real) = Len(x)

\* the second step of an epoch over three samples in batches of two has fed
\* one real row and two noise rows to the discriminator update
C13_Witness ==
    /\ pc = "g_opt" /\ Len(train_y) = 3 /\ batch_size = 2 /\ LastStepOfEpoch
    /\ Len(last_d.input_real) = 1 /\ last_d.input_z.rows = 2

\* the d_opt run of the first step whose loss is NaN has happened
NaNLossSeen == nan_step > 0 /\ d_runs >= nan_step

NothingComputed ==
    /\ trainset = NotLoaded /\ testset = NotLoaded
    /\ ~net_built /\ steps = 0 /\ d_runs = 0 /\ g_runs = 0

\* C11 as stated: when a data file is missing or malformed the run ends with a
\* fatal error before any data loading, model construction or training step
C11_Original ==
    (fs0.train # "ok" \/ fs0.test # "ok") => NothingComputed

\* C11: only a missing data directory is fatal before anything else; a missing
\* file is downloaded and a file found present is left as it is; a failed
\* download ends the run before data loading; an unreadable file ends the run
\* at its loadmat, before model construction; a run that ended with an
\* error has executed no training step
C11_DataErrors ==
    /\ error # "none" <=> pc = "stopped"
    /\ ~fs0.dir =>
          /\ pc \in {"check_dir", "stopped"}
          /\ pc = "stopped" => error = "Exception"
          /\ train_file = "absent" /\ test_file = "absent"
          /\ NothingComputed
    /\ error = "Exception" => ~fs0.dir
    /\ error = "URLError" => (fs0.train = "absent" \/ fs0.test = "absent") /\ NothingComputed
    /\ error = "loadmat" =>
          /\ train_file = "unreadable" \/ test_file = "unreadable"
          /\ testset = NotLoaded /\ ~net_built /\ steps = 0 /\ d_runs = 0 /\ g_runs = 0
    /\ fs0.train # "absent" => train_file = fs0.train
    /\ fs0.test # "absent" => test_file = fs0.test
    /\ pc \notin {"check_dir", "fetch_train", "stopped"} => train_file # "absent"
    /\ pc \notin {"check_dir", "fetch_train", "fetch_test", "stopped"} =>
          test_file # "absent"
    /\ trainset # NotLoaded => train_file = "ok"
    /\ net_built => train_file = "ok" /\ test_file = "ok"
    /\ d_runs > 0 => net_built /\ error = "none"

\* both files were missing, were downloaded, and the run trained and returned
C11_Witness ==
    /\ pc = "done" /\ fs0.train = "absent" /\ fs0.test = "absent"
    /\ d_runs = 1 /\ g_runs = 1 /\ Len(last_d.input_real) = MaxN

====
